---- MODULE Spec2Model ----
(***************************************************************************)
(* A model of two providers of dnscontrol:                                 *)
(*   - providers/gandiv5/convert.go: nativeToRecords / recordsToNative,    *)
(*     the RRset <-> RecordConfig conversion;                              *)
(*   - providers/hetzner/api.go: the paginated readers GetZones and        *)
(*     GetRecords, and the correction planner GetDomainCorrections with    *)
(*     the corrections it returns.                                         *)
(* The three are independent programs: a behaviour of Spec runs one of     *)
(* them, the variables of the other two staying "off".                     *)
(* Strings whose content is inspected by the code (record values) are      *)
(* sequences of one-character strings.                                     *)
(***************************************************************************)
EXTENDS Naturals, Sequences, FiniteSets, TLC

VARIABLES
    \* ---- gandiv5 conversion ----
    cpc,        \* position of the conversion run: "start", "encoded", "decoded"
    mode,       \* which function the run exercises: "encode" or "decode"
    rcs,        \* input of recordsToNative: sequence of canonical records
    native,     \* input of nativeToRecords: one livedns.DomainRecord
    zrs,        \* value returned by recordsToNative
    out,        \* value returned by nativeToRecords: [rcs, err]
    \* ---- hetzner pagination ----
    ppc,        \* position inside GetZones/GetRecords: "call", "loop", "done"
    resource,   \* "zones" (GetZones) or "records" (GetRecords)
    srvPages,   \* the server's pages: sequence of sequences of items
    response,   \* response.Zones / response.Records
    meta,       \* last *Meta returned by request: [nil, page, last]
    err,        \* the local err of the reader
    requested,  \* page numbers requested so far, in order
    result,     \* what the reader returned: [items, err]
    \* ---- hetzner correction planner ----
    gpc,        \* "idle", "planned", "failed", "panicked"
    desired,    \* dc.Records
    srvRecords, \* the records of the zone on the server
    perPage,    \* the server's page size for this zone
    diffed,     \* the records read and the differ's answer to them
    corrections,\* the corrections GetDomainCorrections returned
    planErr,    \* the error GetDomainCorrections returned
    fault,      \* which step of the last GetDomainCorrections failed
    calls,      \* every API call issued so far, in order
    invoked,    \* number of corrections whose F has been invoked
    \* ---- hetzner EnsureDomainExists ----
    epc,        \* "idle", "done"
    domainArg,  \* the argument domain of EnsureDomainExists
    srvZones,   \* the names of the zones of the account on the server
    listed,     \* what ListZones returned to EnsureDomainExists
    created,    \* the Zone of every CreateZone request sent, in order
    ensureErr   \* the error EnsureDomainExists returned

convVars == <<cpc, mode, rcs, native, zrs, out>>
pageVars == <<ppc, resource, srvPages, response, meta, err, requested, result>>
planVars == <<gpc, desired, srvRecords, perPage, diffed, corrections, planErr,
              fault, calls, invoked>>
ensVars == <<epc, domainArg, srvZones, listed, created, ensureErr>>
vars == <<convVars, pageVars, planVars, ensVars>>

----------------------------------------------------------------------------
(* Bounds of the model.                                                    *)

MaxRecs == 3
MaxVals == 3
MaxItems == 5
MaxPerPage == 2
MaxExisting == 2
MaxZones == 3

----------------------------------------------------------------------------
(* Generic helpers.                                                        *)

Min(a, b) == IF a < b THEN a ELSE b

SeqsUpTo(S, n) == UNION {[1..k -> S] : k \in 0..n}

Range(s) == {s[i] : i \in DOMAIN s}

RECURSIVE Flatten(_)
Flatten(ss) == IF ss = <<>> THEN <<>> ELSE Head(ss) \o Flatten(Tail(ss))

\* All orderings of a finite set, as sequences without repetition.
Orderings(S) ==
    {s \in [1..Cardinality(S) -> S] : \A i, j \in DOMAIN s : s[i] = s[j] => i = j}

----------------------------------------------------------------------------
(* Record values and their text encodings.                                 *)

Q == "\""
BS == "\\"
Origin == "example.com"
Apex == "@"

\* txtutil.EncodeQuoted: wrap in quotes, escaping quote and backslash.
RECURSIVE Escape(_)
Escape(t) ==
    IF t = <<>> THEN <<>>
    ELSE (IF Head(t) \in {Q, BS} THEN <<BS, Head(t)>> ELSE <<Head(t)>>)
         \o Escape(Tail(t))

EncodeQuoted(t) == <<Q>> \o Escape(t) \o <<Q>>

\* The inverse walk over the inside of a quoted string: [ok, val].
RECURSIVE Unescape(_)
Unescape(s) ==
    IF s = <<>> THEN [ok |-> TRUE, val |-> <<>>]
    ELSE IF Head(s) = Q THEN [ok |-> FALSE, val |-> <<>>]
    ELSE IF Head(s) = BS THEN
        IF Len(s) < 2 THEN [ok |-> FALSE, val |-> <<>>]
        ELSE LET rest == Unescape(SubSeq(s, 3, Len(s)))
             IN  [ok |-> rest.ok, val |-> IF rest.ok THEN <<s[2]>> \o rest.val ELSE <<>>]
    ELSE LET rest == Unescape(Tail(s))
         IN  [ok |-> rest.ok, val |-> IF rest.ok THEN <<Head(s)>> \o rest.val ELSE <<>>]

\* txtutil.ParseQuoted: a quoted string, unescaped; anything else is an error.
ParseQuoted(s) ==
    IF Len(s) >= 2 /\ s[1] = Q /\ s[Len(s)] = Q
    THEN Unescape(SubSeq(s, 2, Len(s) - 1))
    ELSE [ok |-> FALSE, val |-> <<>>]

Digits == {"1", "2"}
IsAddress(s) == s # <<>> /\ \A i \in DOMAIN s : s[i] \in Digits

\* RecordConfig.PopulateFromStringFunc(rtype, value, origin, txtFn): parse the
\* provider's text for a value of type rtype; [ok, val].
PopulateFromStringFunc(rtype, value) ==
    CASE rtype = "A"   -> [ok |-> IsAddress(value), val |-> IF IsAddress(value) THEN value ELSE <<>>]
      [] rtype = "TXT" -> ParseQuoted(value)
      [] OTHER         -> [ok |-> value # <<>>, val |-> value]

\* RecordConfig.SetTarget, used for ALIAS: the raw text is the target.
SetTarget(value) == [ok |-> TRUE, val |-> value]

\* RecordConfig.GetTargetCombinedFunc(txtutil.EncodeQuoted).
GetTargetCombinedFunc(r) ==
    IF r.type = "TXT" THEN EncodeQuoted(r.value) ELSE r.value

\* RecordConfig.SetLabel(short, origin): the label relative to origin; the
\* apex marker and the empty name are the apex, any other name is a label
\* under the origin.
SetLabel(short, origin) ==
    IF short \in {"", Apex} THEN Apex ELSE short

\* RecordConfig.Key(): (NameFQDN, Type).  With one origin the FQDN is
\* determined by the label, so the pair (label, type) stands for it.
Key(r) == <<r.label, r.type>>

----------------------------------------------------------------------------
(* providers/gandiv5/convert.go                                            *)

\* TTLs are DNS TTLs, 0..2^31-1 (RFC 2181): on them the conversions
\* uint32(int), int(uint32) and uint64(uint32) of the code change nothing.

\* The zero livedns.DomainRecord; stands for a nil Original.
NoRRset == [RrsetName |-> "", RrsetType |-> "", RrsetTTL |-> 0, RrsetValues |-> <<>>]

\* The RecordConfig built for one value of n (convert.go 22-34, 39).
NewRecordConfigDroppingHandle(n, origin, val) ==
    [label    |-> SetLabel(n.RrsetName, origin),
     type     |-> n.RrsetType,
     value    |-> val,
     ttl      |-> n.RrsetTTL,
     original |-> NoRRset]

NewRecordConfig(n, origin, val) ==
    [label    |-> SetLabel(n.RrsetName, origin),
     type     |-> n.RrsetType,
     value    |-> val,
     ttl      |-> n.RrsetTTL,
     original |-> n]

\* The switch on n.RrsetType (convert.go 28-34): [ok, val].
ParseNativeValue(n, value) ==
    IF n.RrsetType = "ALIAS" THEN SetTarget(value)
    ELSE PopulateFromStringFunc(n.RrsetType, value)

\* What nativeToRecords returns when a value does not parse (convert.go 35-37).
UnparsableKeepingPartial(acc) == [rcs |-> acc, err |-> TRUE]

Unparsable(acc) == [rcs |-> <<>>, err |-> TRUE]

\* The loop of nativeToRecords from value i on, acc being rcs so far.
RECURSIVE nativeToRecordsFrom(_, _, _, _)
nativeToRecordsFrom(n, origin, i, acc) ==
    IF i > Len(n.RrsetValues) THEN [rcs |-> acc, err |-> FALSE]
    ELSE LET p == ParseNativeValue(n, n.RrsetValues[i])
         IN  IF ~p.ok THEN Unparsable(acc)
             ELSE nativeToRecordsFrom(n, origin, i + 1,
                                      Append(acc, NewRecordConfig(n, origin, p.val)))

nativeToRecords(n, origin) == nativeToRecordsFrom(n, origin, 1, <<>>)

\* The ZoneRecord allocated for the first record of a key (convert.go 62-67).
NewZoneRecord(r, label) ==
    [RrsetName   |-> label,
     RrsetType   |-> r.type,
     RrsetTTL    |-> r.ttl,
     RrsetValues |-> <<GetTargetCombinedFunc(r)>>]

\* The TTL of the RRset after a further record of its key (convert.go 72-77).
MergeTTLFirstSeen(zrTTL, rTTL) == zrTTL

MergeTTL(zrTTL, rTTL) ==
    IF rTTL # zrTTL /\ rTTL < zrTTL THEN rTTL ELSE zrTTL

\* The value list of the RRset after a further record (convert.go 70).
AppendValueToCopy(values, r) == values

AppendValue(values, r) == Append(values, GetTargetCombinedFunc(r))

\* The loop over rcs (convert.go 53-79) from record i on; keys is the map
\* RecordKey -> *DomainRecord as a function.
RECURSIVE groupFrom(_, _, _, _)
groupFrom(recs, origin, i, keys) ==
    IF i > Len(recs) THEN keys
    ELSE LET r     == recs[i]
             label == IF r.label = Apex THEN origin ELSE r.label
             key   == Key(r)
         IN  IF key \notin DOMAIN keys
             THEN groupFrom(recs, origin, i + 1,
                            [k \in DOMAIN keys \cup {key} |->
                                IF k = key THEN NewZoneRecord(r, label) ELSE keys[k]])
             ELSE groupFrom(recs, origin, i + 1,
                            [keys EXCEPT ![key] =
                                [@ EXCEPT !.RrsetValues = AppendValue(@, r),
                                          !.RrsetTTL = MergeTTL(@, r.ttl)]])

EmptyMap == [k \in {} |-> NoRRset]

\* recordsToNative: the final range over the map keys (convert.go 81-83) visits
\* the keys in an unspecified order, so the function has one possible return
\* value per ordering of the keys.
recordsToNative(recs, origin) ==
    LET keys == groupFrom(recs, origin, 1, EmptyMap)
    IN  {[i \in 1..Cardinality(DOMAIN keys) |-> keys[o[i]]] : o \in Orderings(DOMAIN keys)}

\* Decoding every RRset of a list in turn, stopping at the first error: the
\* composition decode(encode(R)) of the round trip.
RECURSIVE decodeAllFrom(_, _, _, _)
decodeAllFrom(ns, origin, i, acc) ==
    IF i > Len(ns) THEN [rcs |-> acc, err |-> FALSE]
    ELSE LET d == nativeToRecords(ns[i], origin)
         IN  IF d.err THEN [rcs |-> <<>>, err |-> TRUE]
             ELSE decodeAllFrom(ns, origin, i + 1, acc \o d.rcs)

\* Inputs of recordsToNative: canonical records of the desired configuration.
TargetsA == {<<"1">>, <<"2">>}
TargetTXT == <<"a", Q>>
CanonUniverse ==
    {r \in [label : {Apex, "www", Origin}, type : {"A", "TXT"},
            value : TargetsA \cup {TargetTXT}, ttl : {300, 600, 3600},
            original : {NoRRset}] :
        /\ r.type = "A" => r.value \in TargetsA
        /\ r.type = "TXT" => r.value = TargetTXT /\ r.label = "www"
        /\ r.label = Origin => r.type = "A" /\ r.value = <<"1">> /\ r.ttl = 300
        /\ r.ttl = 600 => r.label = Apex /\ r.value = <<"1">>}

\* Inputs of nativeToRecords: RRsets as the provider may send them, with
\* values that parse under some types and not under others.
NativeValues == {<<"1">>, <<"2">>, <<"a">>, <<Q, "a", Q>>, <<Q, "a", BS, Q, Q>>}
NativeUniverse ==
    {n \in [RrsetName : {Apex, "www", Origin}, RrsetType : {"A", "TXT", "ALIAS"},
            RrsetTTL : {300, 3600}, RrsetValues : SeqsUpTo(NativeValues, MaxVals)] :
        n.RrsetName = Origin => n.RrsetType = "A" /\ n.RrsetTTL = 300}

NoResult == [rcs |-> <<>>, err |-> FALSE]

ConvOff ==
    /\ cpc = "off" /\ mode = "off" /\ rcs = <<>> /\ native = NoRRset
    /\ zrs = <<>> /\ out = NoResult

ConvInit ==
    /\ cpc = "start" /\ zrs = <<>> /\ out = NoResult
    /\ \/ mode = "encode" /\ rcs \in SeqsUpTo(CanonUniverse, MaxRecs) /\ native = NoRRset
       \/ mode = "decode" /\ rcs = <<>> /\ native \in NativeUniverse

\* A call recordsToNative(rcs, origin).
RecordsToNative ==
    /\ cpc = "start" /\ mode = "encode"
    /\ zrs' \in recordsToNative(rcs, Origin)
    /\ cpc' = "encoded"
    /\ UNCHANGED <<mode, rcs, native, out, pageVars, planVars, ensVars>>

\* nativeToRecords applied to every RRset recordsToNative returned.
RoundTrip ==
    /\ cpc = "encoded"
    /\ out' = decodeAllFrom(zrs, Origin, 1, <<>>)
    /\ cpc' = "decoded"
    /\ UNCHANGED <<mode, rcs, native, zrs, pageVars, planVars, ensVars>>

\* A call nativeToRecords(native, origin).
NativeToRecords ==
    /\ cpc = "start" /\ mode = "decode"
    /\ out' = nativeToRecords(native, Origin)
    /\ cpc' = "decoded"
    /\ UNCHANGED <<mode, rcs, native, zrs, pageVars, planVars, ensVars>>

----------------------------------------------------------------------------
(* providers/hetzner/api.go: HdnsApiClient.GetZones and GetRecords.  The   *)
(* two functions are the same code over Zones and over Records.            *)

\* per_page of GetZones (api.go 442).
ZonesPerPage == 2

\* The server's paging of n items, pp to a page: at least one page.
PageCount(n, pp) == IF n = 0 THEN 1 ELSE (n + pp - 1) \div pp
Paging(n, pp) ==
    [k \in 1..PageCount(n, pp) |->
        [i \in 1..(Min(k * pp, n) - (k - 1) * pp) |-> (k - 1) * pp + i]]

NilMeta == [nil |-> TRUE, page |-> 0, last |-> 0]
NoReturn == [items |-> <<>>, err |-> FALSE]

\* The loop condition (api.go 445, 514).
MorePages(m) == ~m.nil /\ m.page < m.last

\* The page parameter of the next request (api.go 446, 515).
NextPageNumberSkipping(m) == m.page + 2

NextPageNumber(m) == m.page + 1

\* response.Records after one iteration of the loop body on a page pk
\* (api.go 517-525).  extraResponse := response copies the slice header, so
\* both share one array; json.Unmarshal decodes the elements of pk into that
\* array from index 0, and the inner loop appends the elements of pk to
\* extraResponse.Records, behind them in the same array while there is room.
\* response.Records keeps its length: nothing is appended to it.  (The
\* capacity of the array is at least Len(resp), so within Len(resp) the
\* result does not depend on it.)
LoopBody(resp, pk) ==
    [i \in 1..Len(resp) |->
        IF i <= Len(pk) THEN pk[i]
        ELSE IF i <= 2 * Len(pk) THEN pk[i - Len(pk)]
        ELSE resp[i]]

PageOff ==
    /\ ppc = "off" /\ resource = "off" /\ srvPages = <<>> /\ response = <<>>
    /\ meta = NilMeta /\ err = FALSE /\ requested = <<>> /\ result = NoReturn

PageInit ==
    /\ ppc = "call" /\ response = <<>> /\ meta = NilMeta /\ err = FALSE
    /\ requested = <<>> /\ result = NoReturn
    /\ \E n \in 0..MaxItems :
          \/ resource = "zones" /\ srvPages = Paging(n, ZonesPerPage)
          \/ resource = "records" /\ \E pp \in 1..MaxPerPage : srvPages = Paging(n, pp)

\* The first request (api.go 444, 513): no page parameter, the server
\* answers with its first page.
FirstRequest ==
    /\ ppc = "call"
    /\ requested' = Append(requested, 1)
    /\ \/ /\ response' = srvPages[1]
          /\ meta' = [nil |-> FALSE, page |-> 1, last |-> Len(srvPages)]
          /\ err' = FALSE
       \/ /\ response' = <<>>
          /\ meta' = NilMeta
          /\ err' = TRUE
    /\ ppc' = "loop"
    /\ UNCHANGED <<resource, srvPages, result, convVars, planVars, ensVars>>

\* One iteration of the loop (api.go 445-457, 514-526): request the next
\* page; return nil and the error if it fails.
NextPage ==
    /\ ppc = "loop" /\ MorePages(meta)
    /\ requested' = Append(requested, NextPageNumber(meta))
    /\ \/ /\ NextPageNumber(meta) \in DOMAIN srvPages
          /\ response' = LoopBody(response, srvPages[NextPageNumber(meta)])
          /\ meta' = [nil |-> FALSE, page |-> NextPageNumber(meta), last |-> Len(srvPages)]
          /\ err' = FALSE
          /\ UNCHANGED <<ppc, result>>
       \/ /\ meta' = NilMeta
          /\ err' = TRUE
          /\ result' = [items |-> <<>>, err |-> TRUE]
          /\ ppc' = "done"
          /\ UNCHANGED response
    /\ UNCHANGED <<resource, srvPages, convVars, planVars, ensVars>>

\* The final return (api.go 459, 528).
ReturnPages ==
    /\ ppc = "loop" /\ ~MorePages(meta)
    /\ result' = [items |-> response, err |-> err]
    /\ ppc' = "done"
    /\ UNCHANGED <<resource, srvPages, response, meta, err, requested, convVars, planVars, ensVars>>

----------------------------------------------------------------------------
(* providers/hetzner/api.go: HdnsProvider.GetDomainCorrections             *)

Domain == Origin

\* The zero Record; stands for a nil Original.
NoRecord == [Type |-> "", Id |-> 0, ZoneId |-> "", Name |-> "", Value |-> <<>>, TTL |-> 0]

\* The subsequence of s at the indices in I, from index i on.
RECURSIVE SubAt(_, _, _)
SubAt(s, I, i) ==
    IF i > Len(s) THEN <<>>
    ELSE (IF i \in I THEN <<s[i]>> ELSE <<>>) \o SubAt(s, I, i + 1)

\* The records of the server cut into its pages.
PagesOf(srv, pp) ==
    LET idx == Paging(Len(srv), pp)
    IN  [k \in DOMAIN idx |-> [i \in DOMAIN idx[k] |-> srv[idx[k][i]]]]

\* What GetRecords returns when no request fails: the loop of NextPage run
\* over the pages 2..P, starting from the first page.
RECURSIVE ReadFrom(_, _, _)
ReadFrom(pages, k, resp) ==
    IF k > Len(pages) THEN resp
    ELSE ReadFrom(pages, k + 1, LoopBody(resp, pages[k]))

GetRecords(pages) == ReadFrom(pages, 2, pages[1])

\* RecordConfig.PopulateFromString(rtype, value, origin).
PopulateFromString(rtype, value) == PopulateFromStringFunc(rtype, value)

\* GetZoneRecords, the conversion loop (api.go 771-788): [rcs, err].
RECURSIVE convertFrom(_, _, _, _)
convertFrom(records, domain, i, acc) ==
    IF i > Len(records) THEN [rcs |-> acc, err |-> FALSE]
    ELSE LET record == records[i]
             p == PopulateFromString(record.Type, record.Value)
         IN  IF ~p.ok THEN [rcs |-> <<>>, err |-> TRUE]
             ELSE convertFrom(records, domain, i + 1,
                     Append(acc, [label    |-> SetLabel(record.Name, domain),
                                  type     |-> record.Type,
                                  value    |-> p.val,
                                  ttl      |-> record.TTL,
                                  original |-> record]))

GetZoneRecords(records, domain) == convertFrom(records, domain, 1, <<>>)

\* Removing the SOA records (api.go 695-701).
PruneNothing(records) == records

PruneSOA(records) ==
    SubAt(records, {i \in DOMAIN records : records[i].type # "SOA"}, 1)

\* diff.IncrementalDiff: keyed comparison of desired and existing.  A key
\* only in desired is created, a key only in existing deleted, a key in both
\* with a different type, value or TTL modified; of several existing records
\* with one key the earliest is compared and the others are deleted.
IsEarliest(existing, i) == \A j \in 1..(i - 1) : Key(existing[j]) # Key(existing[i])
EarliestOf(existing, key) ==
    existing[CHOOSE i \in DOMAIN existing : Key(existing[i]) = key /\ IsEarliest(existing, i)]
Differs(d, e) == d.type # e.type \/ d.value # e.value \/ d.ttl # e.ttl

IncrementalDiff(want, existing) ==
    LET keysD == {Key(want[i]) : i \in DOMAIN want}
        keysE == {Key(existing[i]) : i \in DOMAIN existing}
        mods  == SubAt(want, {i \in DOMAIN want :
                        /\ Key(want[i]) \in keysE
                        /\ Differs(want[i], EarliestOf(existing, Key(want[i])))}, 1)
    IN  [existing |-> existing,
         toCreate |-> SubAt(want, {i \in DOMAIN want : Key(want[i]) \notin keysE}, 1),
         toDelete |-> SubAt(existing, {i \in DOMAIN existing :
                        Key(existing[i]) \notin keysD \/ ~IsEarliest(existing, i)}, 1),
         toModify |-> [j \in DOMAIN mods |->
                        [Desired |-> mods[j],
                         Existing |-> EarliestOf(existing, Key(mods[j]))]]]

NoDiff == [existing |-> <<>>, toCreate |-> <<>>, toDelete |-> <<>>, toModify |-> <<>>]

\* RecordConfig.GetTargetCombined().
GetTargetCombined(r) == GetTargetCombinedFunc(r)

\* The corrections for toDelete (api.go 712-718): F deletes the record the
\* existing RecordConfig was built from.
DeleteCorrections(toDelete) ==
    [j \in DOMAIN toDelete |->
        [call |-> "DeleteRecord", record |-> toDelete[j].original]]

\* The corrections for toCreate (api.go 720-735).
CreateCorrections(toCreate, domain) ==
    [j \in DOMAIN toCreate |->
        [call |-> "CreateRecord",
         record |-> [Type   |-> toCreate[j].type,
                     Id     |-> 0,
                     ZoneId |-> domain,
                     Name   |-> toCreate[j].label,
                     Value  |-> GetTargetCombined(toCreate[j]),
                     TTL    |-> toCreate[j].ttl]]]

\* The record of one toModify pair (api.go 738-745).
ModifiedRecord(mod, domain) ==
    [Type   |-> mod.Desired.type,
     Id     |-> mod.Existing.original.Id,
     ZoneId |-> domain,
     Name   |-> mod.Desired.label,
     Value  |-> GetTargetCombined(mod.Desired),
     TTL    |-> mod.Desired.ttl]

\* The corrections for toModify (api.go 737-753): each closure holds the
\* record declared in its own iteration.
ModifyCorrectionsSharingRecord(toModify, domain) ==
    [j \in DOMAIN toModify |->
        [call |-> "UpdateRecord",
         record |-> ModifiedRecord(toModify[Len(toModify)], domain)]]

ModifyCorrections(toModify, domain) ==
    [j \in DOMAIN toModify |->
        [call |-> "UpdateRecord", record |-> ModifiedRecord(toModify[j], domain)]]

\* The request a client method sends (api.go 539-558).
CallOf(c) ==
    CASE c.call = "DeleteRecord" ->
            [method |-> "DELETE", path |-> "/records/", id |-> c.record.Id,
             page |-> 0, body |-> NoRecord]
      [] c.call = "CreateRecord" ->
            [method |-> "POST", path |-> "/records", id |-> 0,
             page |-> 0, body |-> c.record]
      [] c.call = "UpdateRecord" ->
            [method |-> "PUT", path |-> "/records/", id |-> c.record.Id,
             page |-> 0, body |-> c.record]

\* The requests of the reads (api.go 444, 513-518).
GetZonesCall == [method |-> "GET", path |-> "/zones", id |-> 0, page |-> 1, body |-> NoRecord]
GetRecordsCalls(n) ==
    [k \in 1..n |->
        [method |-> "GET", path |-> "/records", id |-> 0, page |-> k, body |-> NoRecord]]

\* The requests sent while the three loops build the corrections
\* (api.go 712-753): none, every client call is inside a closure F.
IssuedByPlanEagerDelete(cs) ==
    SubAt([j \in DOMAIN cs |-> CallOf(cs[j])],
          {j \in DOMAIN cs : cs[j].call = "DeleteRecord"}, 1)

IssuedByPlan(cs) == <<>>

\* The server's records after a request.
FreshId(srv) ==
    IF srv = <<>> THEN 1
    ELSE 1 + (CHOOSE m \in {srv[i].Id : i \in DOMAIN srv} :
                \A i \in DOMAIN srv : srv[i].Id <= m)
ApplyCall(srv, call) ==
    CASE call.method = "DELETE" ->
            SubAt(srv, {i \in DOMAIN srv : srv[i].Id # call.id}, 1)
      [] call.method = "PUT" ->
            [i \in DOMAIN srv |->
                IF srv[i].Id = call.id THEN [call.body EXCEPT !.Id = call.id] ELSE srv[i]]
      [] call.method = "POST" ->
            Append(srv, [call.body EXCEPT !.Id = FreshId(srv)])
      [] OTHER -> srv

RECURSIVE ApplyCalls(_, _)
ApplyCalls(srv, cs) ==
    IF cs = <<>> THEN srv ELSE ApplyCalls(ApplyCall(srv, Head(cs)), Tail(cs))

\* The zone on the server: records of the API, their Id being their place.
ExistingUniverse ==
    {r \in [Type : {"A", "SOA"}, Id : {0}, ZoneId : {"z1"}, Name : {Apex, "www"},
            Value : {<<"1">>, <<"a">>, <<"s">>}, TTL : {600}] :
        /\ r.Type = "A" => r.Value \in {<<"1">>, <<"a">>}
        /\ r.Type = "SOA" => r.Value = <<"s">>}
ServerInputs ==
    {[i \in DOMAIN s |-> [s[i] EXCEPT !.Id = i]] :
        s \in SeqsUpTo(ExistingUniverse, MaxExisting)}

\* dc.Records: at most one record per key, listed in key order.
DesiredUniverse ==
    {r \in [label : {Apex, "www"}, type : {"A", "SOA"}, value : {<<"1">>, <<"2">>, <<"s">>},
            ttl : {300, 600}, original : {NoRecord}] :
        /\ r.type = "A" => r.value \in {<<"1">>, <<"2">>} /\ (r.value = <<"2">> => r.ttl = 600)
        /\ r.type = "SOA" => r.value = <<"s">> /\ r.label = Apex /\ r.ttl = 300}
KeyRank(r) == CASE r.type = "SOA" -> 3 [] r.label = Apex -> 1 [] OTHER -> 2
DesiredInputs ==
    {s \in SeqsUpTo(DesiredUniverse, Cardinality({Key(r) : r \in DesiredUniverse})) :
        \A i, j \in DOMAIN s : i < j => KeyRank(s[i]) < KeyRank(s[j])}

PlanOff ==
    /\ gpc = "off" /\ desired = <<>> /\ srvRecords = <<>> /\ perPage = 1
    /\ diffed = NoDiff /\ corrections = <<>> /\ planErr = FALSE /\ fault = "none"
    /\ calls = <<>> /\ invoked = 0

PlanInit ==
    /\ gpc = "idle" /\ desired \in DesiredInputs /\ srvRecords \in ServerInputs
    /\ perPage \in 1..MaxPerPage
    /\ diffed = NoDiff /\ corrections = <<>> /\ planErr = FALSE /\ fault = "none"
    /\ calls = <<>> /\ invoked = 0

\* A return of (nil, err) after the requests cl.
Fails(f, cl) ==
    /\ gpc' = "failed" /\ fault' = f /\ planErr' = TRUE
    /\ corrections' = <<>> /\ diffed' = NoDiff
    /\ calls' = calls \o cl
    /\ UNCHANGED <<desired, srvRecords, perPage, invoked>>

\* A call GetDomainCorrections(dc) (api.go 682-756, with GetZoneRecords
\* 758-789).  models.PostProcessRecords (api.go 704) leaves label, type,
\* value, TTL and Original of the records of this model as they are.
GetDomainCorrections ==
    /\ gpc = "idle"
    /\ LET pages  == PagesOf(srvRecords, perPage)
           reads  == <<GetZonesCall>> \o GetRecordsCalls(Len(pages))
           zr     == GetZoneRecords(GetRecords(pages), Domain)
           pruned == PruneSOA(zr.rcs)
           d      == IncrementalDiff(desired, pruned)
           cs     == DeleteCorrections(d.toDelete)
                     \o CreateCorrections(d.toCreate, Domain)
                     \o ModifyCorrections(d.toModify, Domain)
       IN  \/ Fails("punycode", <<>>)                      \* dc.Punycode() fails
           \/ Fails("getzones", <<GetZonesCall>>)          \* GetZones fails
           \/ /\ gpc' = "panicked" /\ fault' = "nozone"    \* zones[0] of no zone
              /\ planErr' = FALSE /\ corrections' = <<>> /\ diffed' = NoDiff
              /\ calls' = calls \o <<GetZonesCall>>
              /\ UNCHANGED <<desired, srvRecords, perPage, invoked>>
           \/ \E j \in 1..Len(pages) :                     \* GetRecords fails
                 Fails("getrecords", <<GetZonesCall>> \o GetRecordsCalls(j))
           \/ zr.err /\ Fails("parse", reads)              \* PopulateFromString fails
           \/ ~zr.err /\ Fails("diff", reads)              \* IncrementalDiff fails
           \/ /\ ~zr.err
              /\ gpc' = "planned" /\ fault' = "none" /\ planErr' = FALSE
              /\ corrections' = cs
              /\ diffed' = [d EXCEPT !.existing = zr.rcs]
              /\ calls' = calls \o reads \o IssuedByPlan(cs)
              /\ srvRecords' = ApplyCalls(srvRecords, IssuedByPlan(cs))
              /\ UNCHANGED <<desired, perPage, invoked>>
    /\ UNCHANGED <<convVars, pageVars, ensVars>>

\* The executor invokes the F of the next correction: one client call.
InvokeCorrection ==
    /\ gpc = "planned" /\ invoked < Len(corrections)
    /\ calls' = Append(calls, CallOf(corrections[invoked + 1]))
    /\ srvRecords' = ApplyCall(srvRecords, CallOf(corrections[invoked + 1]))
    /\ invoked' = invoked + 1
    /\ UNCHANGED <<gpc, desired, perPage, diffed, corrections, planErr, fault,
                   convVars, pageVars, ensVars>>

----------------------------------------------------------------------------
(* providers/hetzner/api.go: HdnsProvider.EnsureDomainExists               *)

\* The TTL of the zone EnsureDomainExists creates (api.go 665).
CreateZoneTTL == 86400

\* The name of the zone EnsureDomainExists creates (api.go 664): the string
\* literal "domain", not the parameter domain.
CreatedZoneName(name) == "domain"

\* What GetZones returns when no request fails (api.go 436-460): the same
\* loop as GetRecords, over the zones.
GetZones(pages) == ReadFrom(pages, 2, pages[1])

\* ListZones (api.go 636-648): the names of the zones GetZones("") returned.
ListZones(zones) == GetZones(PagesOf(zones, ZonesPerPage))

\* The zone names of the account and the domains asked for.
ZoneNames == {"example.com", "example.org", "domain"}
ZoneLists ==
    {s \in SeqsUpTo(ZoneNames, MaxZones) : \A i, j \in DOMAIN s : s[i] = s[j] => i = j}

EnsOff ==
    /\ epc = "off" /\ domainArg = "" /\ srvZones = <<>> /\ listed = <<>>
    /\ created = <<>> /\ ensureErr = FALSE

EnsInit ==
    /\ epc = "idle" /\ domainArg \in ZoneNames /\ srvZones \in ZoneLists
    /\ listed = <<>> /\ created = <<>> /\ ensureErr = FALSE

\* A call EnsureDomainExists(domainArg) (api.go 650-669).
EnsureDomainExists ==
    /\ epc = "idle"
    /\ epc' = "done"
    /\ \/ /\ ensureErr' = TRUE                          \* ListZones fails
          /\ UNCHANGED <<listed, created, srvZones>>
       \/ /\ listed' = ListZones(srvZones)
          /\ IF domainArg \in Range(ListZones(srvZones))
             THEN /\ ensureErr' = FALSE                  \* return nil
                  /\ UNCHANGED <<created, srvZones>>
             ELSE /\ created' = Append(created,
                         [Name |-> CreatedZoneName(domainArg), TTL |-> CreateZoneTTL])
                  /\ \/ /\ CreatedZoneName(domainArg) \notin Range(srvZones)
                        /\ srvZones' = Append(srvZones, CreatedZoneName(domainArg))
                        /\ ensureErr' = FALSE            \* the zone is created
                     \/ /\ UNCHANGED srvZones
                        /\ ensureErr' = TRUE             \* CreateZone fails
    /\ UNCHANGED <<domainArg, convVars, pageVars, planVars>>

----------------------------------------------------------------------------

Init ==
    \/ ConvInit /\ PageOff /\ PlanOff /\ EnsOff
    \/ ConvOff /\ PageInit /\ PlanOff /\ EnsOff
    \/ ConvOff /\ PageOff /\ PlanInit /\ EnsOff
    \/ ConvOff /\ PageOff /\ PlanOff /\ EnsInit

Next ==
    \/ RecordsToNative
    \/ RoundTrip
    \/ NativeToRecords
    \/ FirstRequest
    \/ NextPage
    \/ ReturnPages
    \/ GetDomainCorrections
    \/ InvokeCorrection
    \/ EnsureDomainExists

Spec == Init /\ [][Next]_vars

\* One call of a paginated reader on its own.  The reader is sequential
\* code: whenever a step of it is possible, it is taken.
PagesInit == ConvOff /\ PageInit /\ PlanOff /\ EnsOff
PagesNext == FirstRequest \/ NextPage \/ ReturnPages
PagesSpec == PagesInit /\ [][PagesNext]_vars /\ WF_vars(PagesNext)

----------------------------------------------------------------------------
(* Properties of the paginated readers.                                    *)

Occurrences(s, x) == Cardinality({i \in DOMAIN s : s[i] = x})

\* C1: when no request fails, GetRecords / GetZones return the complete set:
\* every item of every page 1..P exactly once, and nothing else.
C1_ReturnsEveryPage ==
    (ppc = "done" /\ ~result.err) =>
        /\ \A x \in Range(Flatten(srvPages)) : Occurrences(result.items, x) = 1
        /\ Range(result.items) \subseteq Range(Flatten(srvPages))

----------------------------------------------------------------------------
(* Properties of the gandiv5 conversion.                                   *)

Encoded == mode = "encode" /\ cpc \in {"encoded", "decoded"}

KeysOf(recs) == {Key(recs[i]) : i \in DOMAIN recs}
Group(recs, k) == SubAt(recs, {i \in DOMAIN recs : Key(recs[i]) = k}, 1)
NativeName(label) == IF label = Apex THEN Origin ELSE label
Least(S) == CHOOSE m \in S : \A x \in S : m <= x
GroupTTL(recs, k) == Least({Group(recs, k)[i].ttl : i \in DOMAIN Group(recs, k)})
GroupValues(recs, k) ==
    [i \in DOMAIN Group(recs, k) |-> GetTargetCombinedFunc(Group(recs, k)[i])]

\* The keys of recs in the order of their first appearance.
FirstKeys(recs) ==
    LET firsts == SubAt(recs, {i \in DOMAIN recs : IsEarliest(recs, i)}, 1)
    IN  [i \in DOMAIN firsts |-> Key(firsts[i])]

\* zrs[i] is the RRset of key o[i], for every i.
Matches(o) ==
    /\ Len(zrs) = Len(o)
    /\ \A i \in DOMAIN o :
          zrs[i].RrsetName = NativeName(o[i][1]) /\ zrs[i].RrsetType = o[i][2]

\* C2: the TTL of the RRset of every (label, type) group is the minimum TTL
\* of the records of the group, whatever their number and order.
C2_GroupTTLIsMinimum ==
    Encoded =>
        \E o \in Orderings(KeysOf(rcs)) :
            /\ Matches(o)
            /\ \A i \in DOMAIN o : zrs[i].RrsetTTL = GroupTTL(rcs, o[i])

C2_Witness ==
    /\ Encoded
    /\ \E k \in KeysOf(rcs) :
          /\ Len(Group(rcs, k)) = 3
          /\ Group(rcs, k)[1].ttl = 600
          /\ Group(rcs, k)[2].ttl = 3600
          /\ Group(rcs, k)[3].ttl = 300
          /\ \E i \in DOMAIN zrs : zrs[i].RrsetTTL = 300

\* C3: one RRset per distinct key of the input, holding the encoded value of
\* every record of the key, one entry per record, in the order supplied.
C3_OneRRsetPerKeyAllValues ==
    Encoded =>
        \E o \in Orderings(KeysOf(rcs)) :
            /\ Matches(o)
            /\ \A i \in DOMAIN o : zrs[i].RrsetValues = GroupValues(rcs, o[i])

C3_Witness ==
    /\ Encoded
    /\ Len(rcs) = 3 /\ Len(zrs) = 2
    /\ Key(rcs[1]) = Key(rcs[3]) /\ Key(rcs[1]) # Key(rcs[2])
    /\ rcs[1].value # rcs[3].value
    /\ \E i \in DOMAIN zrs :
          zrs[i].RrsetValues = <<GetTargetCombinedFunc(rcs[1]), GetTargetCombinedFunc(rcs[3])>>

\* C4: the RRsets are returned in the order in which their keys first appear
\* in the input.
C4_InsertionOrder ==
    Encoded => Matches(FirstKeys(rcs))

Decoded == mode = "decode" /\ cpc = "decoded"

AllParse(n) == \A i \in DOMAIN n.RrsetValues : ParseNativeValue(n, n.RrsetValues[i]).ok

\* C5: when every value parses, an RRset with N values gives N records, in the
\* order of the values, each with one value, all with the RRset's normalised
\* label, type and TTL and the RRset as Original; no value, no record, no error.
C5_OneRecordPerValue ==
    (Decoded /\ AllParse(native)) =>
        /\ ~out.err
        /\ Len(out.rcs) = Len(native.RrsetValues)
        /\ \A i \in DOMAIN out.rcs :
              /\ out.rcs[i].label = SetLabel(native.RrsetName, Origin)
              /\ out.rcs[i].type = native.RrsetType
              /\ out.rcs[i].ttl = native.RrsetTTL
              /\ out.rcs[i].value = ParseNativeValue(native, native.RrsetValues[i]).val
              /\ out.rcs[i].original = native

C5_Witness ==
    /\ Decoded /\ AllParse(native)
    /\ native.RrsetType = "TXT"
    /\ Len(native.RrsetValues) = 3 /\ Len(out.rcs) = 3
    /\ native.RrsetValues[1] # native.RrsetValues[2]

Content(r) == [label |-> r.label, type |-> r.type, value |-> r.value, ttl |-> r.ttl]
UniqueKeys(recs) == \A i, j \in DOMAIN recs : Key(recs[i]) = Key(recs[j]) => i = j

\* C6: for a record set with unique keys, decoding every RRset that
\* recordsToNative produced gives back the same records (label, type, value,
\* TTL), up to order.
C6_RoundTrip ==
    (mode = "encode" /\ cpc = "decoded" /\ UniqueKeys(rcs)) =>
        /\ ~out.err
        /\ Len(out.rcs) = Len(rcs)
        /\ {Content(out.rcs[i]) : i \in DOMAIN out.rcs} = {Content(rcs[i]) : i \in DOMAIN rcs}

----------------------------------------------------------------------------
(* Properties of the correction planner.                                   *)

Planned == gpc = "planned"
Mutations == {"POST", "PUT", "DELETE"}
Touching == {"DeleteRecord", "UpdateRecord"}

\* C7: no correction deletes or updates an existing record of type SOA; SOA
\* records never occur in toDelete or toModify.
C7_SOANeverDeletedOrModified ==
    Planned =>
        /\ \A i \in DOMAIN diffed.toDelete : diffed.toDelete[i].type # "SOA"
        /\ \A i \in DOMAIN diffed.toModify : diffed.toModify[i].Existing.type # "SOA"
        /\ invoked = 0 =>
              \A i \in DOMAIN corrections : \A j \in DOMAIN srvRecords :
                  (corrections[i].call \in Touching /\ srvRecords[j].Type = "SOA")
                      => corrections[i].record.Id # srvRecords[j].Id

C7_Witness ==
    /\ Planned /\ invoked = 0
    /\ \E i \in DOMAIN diffed.existing : diffed.existing[i].type = "SOA"
    /\ \E i \in DOMAIN diffed.existing : diffed.existing[i].type # "SOA"
    /\ \E i \in DOMAIN desired : desired[i].type = "SOA"
    /\ \E i \in DOMAIN corrections : corrections[i].call \in Touching

\* The place in corrections of the correction of the j-th toModify pair.
ModifyIndex(j) == Len(diffed.toDelete) + Len(diffed.toCreate) + j
\* The request sent by the invocation of the i-th correction.
RequestOf(i) == calls[Len(calls) - invoked + i]

\* C8: every toModify pair has exactly one correction, and invoking it sends
\* one update addressed to the Id of the pair's existing record, carrying the
\* pair's desired type, name, value and TTL.
C8_UpdateTargetsOwnPair ==
    Planned =>
        /\ Cardinality({i \in DOMAIN corrections : corrections[i].call = "UpdateRecord"})
               = Len(diffed.toModify)
        /\ \A j \in DOMAIN diffed.toModify :
              LET pair == diffed.toModify[j]
                  c    == corrections[ModifyIndex(j)]
              IN  /\ c.call = "UpdateRecord"
                  /\ c.record.Id = pair.Existing.original.Id
                  /\ ModifyIndex(j) <= invoked =>
                        /\ RequestOf(ModifyIndex(j)).method = "PUT"
                        /\ RequestOf(ModifyIndex(j)).id = pair.Existing.original.Id
                        /\ RequestOf(ModifyIndex(j)).body.Type = pair.Desired.type
                        /\ RequestOf(ModifyIndex(j)).body.Name = pair.Desired.label
                        /\ RequestOf(ModifyIndex(j)).body.Value = GetTargetCombined(pair.Desired)
                        /\ RequestOf(ModifyIndex(j)).body.TTL = pair.Desired.ttl

C8_Witness ==
    /\ Planned
    /\ Len(diffed.toModify) = 2
    /\ diffed.toModify[1].Existing.original.Id # diffed.toModify[2].Existing.original.Id
    /\ diffed.toModify[1].Desired.value # diffed.toModify[2].Desired.value
    /\ invoked = Len(corrections)

\* C9: GetDomainCorrections sends only read requests and leaves the records
\* of the server as they are; a mutation is sent only by the invocation of a
\* correction, one per invocation.
C9_PlanningDoesNotMutate ==
    [][/\ gpc = "idle" =>
            /\ srvRecords' = srvRecords
            /\ \A i \in (Len(calls) + 1)..Len(calls') : calls'[i].method = "GET"
       /\ gpc # "idle" =>
            /\ invoked' = invoked + 1
            /\ Len(calls') = Len(calls) + 1
            /\ calls'[Len(calls')].method \in Mutations]_planVars

C9_Witness ==
    /\ Planned
    /\ \E i \in DOMAIN diffed.toDelete : TRUE
    /\ \E i \in DOMAIN diffed.toCreate : TRUE
    /\ invoked = 0
    /\ Len(calls) = 3 /\ calls[3].page = 2

\* C10: a value that does not parse aborts the whole zone: nativeToRecords
\* returns an error and no record even when earlier values parsed, and
\* GetDomainCorrections returns an error and no correction when the read, the
\* parsing of a record or the diff fails.
C10_FailureAbortsZone ==
    /\ (Decoded /\ ~AllParse(native)) => (out.err /\ out.rcs = <<>>)
    /\ fault \in {"getzones", "getrecords", "parse", "diff"} =>
          (gpc = "failed" /\ planErr /\ corrections = <<>>)
    /\ (Planned /\ invoked = 0) =>
          LET read == GetRecords(PagesOf(srvRecords, perPage))
          IN  \A i \in DOMAIN read : PopulateFromString(read[i].Type, read[i].Value).ok

C10_Witness ==
    /\ Decoded
    /\ Len(native.RrsetValues) = 3
    /\ ParseNativeValue(native, native.RrsetValues[1]).ok
    /\ ParseNativeValue(native, native.RrsetValues[2]).ok
    /\ ~ParseNativeValue(native, native.RrsetValues[3]).ok
    /\ out.err /\ out.rcs = <<>>

----------------------------------------------------------------------------
(* Properties of EnsureDomainExists.                                       *)

\* C11: EnsureDomainExists(domain) creates the domain if it is not listed:
\* exactly one CreateZone, named domain, so that after a successful return a
\* zone of that name exists; if it is listed, no CreateZone and no error.
C11_CreatesTheDomainAsked ==
    epc = "done" =>
        /\ Len(created) <= 1
        /\ \A i \in DOMAIN created : created[i].Name = domainArg
        /\ ~ensureErr =>
              IF domainArg \in Range(listed)
              THEN created = <<>>
              ELSE Len(created) = 1 /\ domainArg \in Range(srvZones)

----------------------------------------------------------------------------
(* Properties of the pagination loop.                                      *)

UpTo(n) == [i \in 1..n |-> i]

\* C12: against a server that answers with the page asked for and a fixed
\* last_page P, the loop requests the pages 1, 2, ..., P in increasing order,
\* each once, and then terminates; a failing request ends the loop there, and
\* the call returns an error and no records.
C12_PagesInOrderThenStop ==
    /\ [](requested = UpTo(Len(requested)) /\ Len(requested) <= Len(srvPages))
    /\ []((ppc = "done" /\ ~result.err) => requested = UpTo(Len(srvPages)))
    /\ []((ppc = "done" /\ result.err) => result.items = <<>>)
    /\ [][(ppc = "loop" /\ ~err /\ err') =>
            (ppc' = "done" /\ result'.err /\ result'.items = <<>>)]_vars
    /\ [][(ppc = "done") => (requested' = requested)]_vars
    /\ <>(ppc = "done")

C12_Witness ==
    /\ ppc = "done" /\ ~result.err
    /\ Len(srvPages) = 3
    /\ requested = <<1, 2, 3>>

====
